---- MODULE Spec2Model ----
(***************************************************************************)
(* A model of the replay engine of the VTOL live viewer client             *)
(* (src/src/viewer/app.ts): chunk ingestion into the packet store, the     *)
(* replay clock, the per-frame replay tick with its undo handlers, and     *)
(* the live entity list.                                                   *)
(*                                                                         *)
(* Time.  Packet timestamps are integers in milliseconds.  The replay      *)
(* clock is a JavaScript number that runReplay advances by                 *)
(* expectedDt * speed, where the speed may be 0.5 and an excessive         *)
(* expectedDt is replaced by 1000/60 ms.  The clock variables              *)
(* (replayStartTime, replayCurrentTime, prevReplayTime) therefore hold     *)
(* exact rationals with denominator UnitsPerMs: one unit is 1/6 ms.        *)
(***************************************************************************)
EXTENDS Integers, Sequences, FiniteSets, TLC

VARIABLES
    replayPackets,              \* Application.replayPackets (flat list)
    groupedReplayPackets,       \* Application.groupedReplayPackets (sec -> list)
    onReplayChunk,              \* TRUE iff the requestReplay callback is set
    currentReplayChunkReceive,  \* Application.currentReplayChunkReceive
    expectedReplayChunks,       \* Client.expectedReplayChunks
    isReplay,                   \* Application.isReplay
    replayStartTime,            \* Application.replayStartTime   (units)
    replayCurrentTime,          \* Application.replayCurrentTime (units)
    prevReplayTime,             \* Application.prevReplayTime    (units)
    replaySpeed,                \* Application.replaySpeed (index)
    entities,                   \* Application.entities (live entity list)
    appState,                   \* Application.state
    messageHandler,             \* Application.messageHandler (its id, or NoHandler)
    registered,                 \* handler ids registered with the RPC controller
    game,                       \* Application.game (its id, or NoGame)
    frameLoop,                  \* TRUE iff run() keeps rescheduling itself
    lastTick,                   \* observation: what the last runReplay call did
    pass,                       \* observation: the forward/reverse pass under way
    received,                   \* observation: chunks received since requestReplay
    progress,                   \* observation: last onProgress value, <<k, n>> for k/n
    resolved,                   \* observation: times the requestReplay promise resolved
    pendingReads,               \* binary frames whose data.arrayBuffer() is pending
    arrivals,                   \* observation: binary frames arrived so far
    consumed,                   \* observation: arrival numbers, in handleReplayChunk order
    spawnables,                 \* Application.spawnables (the ordered spawn rules)
    lastWarned,                 \* observation: paths the last dispatching step warned of
    lastFrame                   \* observation: what handleWSMessage did with the last frame

storeVars == <<replayPackets, groupedReplayPackets>>
chunkVars == <<onReplayChunk, currentReplayChunkReceive, expectedReplayChunks>>
clockVars == <<isReplay, replayStartTime, replayCurrentTime, prevReplayTime, replaySpeed>>
sessionVars == <<appState, frameLoop, messageHandler, registered, game>>
progressVars == <<received, progress, resolved>>
frameVars == <<pendingReads, arrivals, consumed>>
spawnVars == <<spawnables, lastWarned>>
obsVars == <<lastTick, pass, progressVars, frameVars, spawnVars, lastFrame>>
vars == <<storeVars, chunkVars, clockVars, entities, sessionVars, obsVars>>

(***************************************************************************)
(* Program constants                                                       *)
(***************************************************************************)
UnitsPerMs == 6

\* REPLAY_SPEEDS = [-8, -4, -2, -1, -0.5, 0, 0.5, 1, 2, 4, 8, 16, 32], doubled
REPLAY_SPEEDS_x2 == <<-16, -8, -4, -2, -1, 0, 1, 2, 4, 8, 16, 32, 64>>

InitialReplaySpeed == 7        \* private replaySpeed = 7 (zero-based index)

BucketMs == 1000               \* Math.floor(timestamp / 1000)

MaxExpectedDt == 1000          \* if (expectedDt > 1000)

MsPerChunk == 30000            \* const msPerChunk = 30 * 1000

\* timestamp?: number.  A packet without one carries Undef; every real
\* timestamp of the model is >= 0.
Undef == -1
NoHandler == "none"
\* No onProgress call yet.
NoProgress == <<0, 0>>
NoGame == "none"

(***************************************************************************)
(* Helpers                                                                 *)
(***************************************************************************)
Units(ms) == ms * UnitsPerMs

Range(s) == {s[i] : i \in 1..Len(s)}

IsPrefix(s, t) == Len(s) <= Len(t) /\ SubSeq(t, 1, Len(s)) = s

\* x => pred(x) kept, in order (Array.prototype.filter)
SelectIdx(s, Keep(_)) ==
    LET F[i \in 0..Len(s)] ==
            IF i = 0 THEN <<>>
            ELSE IF Keep(i) THEN Append(F[i-1], s[i]) ELSE F[i-1]
    IN F[Len(s)]

\* The class a packet addresses: lifecycle RPCs go to MessageHandler,
\* everything else to an entity class.
ClassName(method) ==
    IF method \in {"NetInstantiate", "NetDestroy"} THEN "MessageHandler"
    ELSE "AIAirVehicle"

\* A decoded RPC packet addressed to the handler instance handlerId (the
\* MessageHandler of a game); id and path are its arguments.
PacketFor(handlerId, method, id, path, ts) ==
    [className |-> ClassName(method), handlerId |-> handlerId, method |-> method,
     id |-> id, path |-> path, timestamp |-> ts]

\* A packet of game "g1".
Packet(method, id, path, ts) == PacketFor("g1", method, id, path, ts)

\* n is the packet's position in replayPackets and stands for the identity
\* of the JavaScript object.
Stored(raw, n) ==
    [className |-> raw.className, handlerId |-> raw.handlerId, method |-> raw.method,
     id |-> raw.id, path |-> raw.path, timestamp |-> raw.timestamp, n |-> n]

\* this.groupedReplayPackets[sec] ?? []
Group(groups, sec) == IF sec \in DOMAIN groups THEN groups[sec] ELSE <<>>

(***************************************************************************)
(* Chunk ingestion: Application.handleReplayChunk                          *)
(***************************************************************************)
\* rpc.timestamp = currentReplayChunkReceive * msPerChunk + tsStep * idx,
\* tsStep = msPerChunk / rpcs.length, idx zero-based.  The batch lengths of
\* the model divide msPerChunk, so the quotient is exact.
SyntheticTimestamp(chunk, len, idx) ==
    chunk * MsPerChunk + (MsPerChunk \div len) * idx

\* if (rpcs[0].timestamp == undefined) every packet of the batch is
\* overwritten; otherwise the batch is left as decoded.
ResolveTimestamps(rpcs, chunk) ==
    IF rpcs[1].timestamp = Undef
    THEN [i \in 1..Len(rpcs) |->
            [rpcs[i] EXCEPT !.timestamp = SyntheticTimestamp(chunk, Len(rpcs), i - 1)]]
    ELSE rpcs

\* Mutant of BucketOf: Math.round in place of Math.floor.
BucketOfRounded(rpc, now) ==
    ((IF rpc.timestamp = Undef THEN now ELSE rpc.timestamp) + (BucketMs \div 2))
        \div BucketMs

\* Math.floor((rpc.timestamp ?? Date.now()) / 1000)
BucketOf(rpc, now) ==
    (IF rpc.timestamp = Undef THEN now ELSE rpc.timestamp) \div BucketMs

\* Mutant of PushToBucket: the bucket is created anew on every push.
PushToFreshBucket(groups, sec, rpc) ==
    [s \in DOMAIN groups \cup {sec} |-> IF s = sec THEN <<rpc>> ELSE groups[s]]

\* if (!groups[sec]) groups[sec] = []; groups[sec].push(rpc)
PushToBucket(groups, sec, rpc) ==
    [s \in DOMAIN groups \cup {sec} |->
        IF s = sec THEN Append(Group(groups, sec), rpc) ELSE groups[s]]

\* rpcs.forEach(rpc => ...) over the batch, in order
RECURSIVE GroupAll(_, _, _)
GroupAll(groups, rpcs, now) ==
    IF rpcs = <<>> THEN groups
    ELSE GroupAll(PushToBucket(groups, BucketOf(Head(rpcs), now), Head(rpcs)),
                  Tail(rpcs), now)

\* The decoded batch as the objects that enter the store.
StoredBatch(rpcs, chunk, base) ==
    LET r == ResolveTimestamps(rpcs, chunk)
    IN [i \in 1..Len(rpcs) |-> Stored(r[i], base + i)]

\* Mutant of OnReplayChunkCallback: the count is compared before it is
\* incremented, so the promise resolves one chunk late.
OnReplayChunkCallbackLate ==
    /\ currentReplayChunkReceive' = currentReplayChunkReceive + 1
    /\ onReplayChunk' = (currentReplayChunkReceive # expectedReplayChunks)
    /\ resolved' = IF currentReplayChunkReceive = expectedReplayChunks
                   THEN resolved + 1 ELSE resolved
    /\ progress' = <<currentReplayChunkReceive + 1, expectedReplayChunks>>
    /\ UNCHANGED expectedReplayChunks

\* The requestReplay callback: count the chunk, on the last expected chunk
\* resolve the promise and unregister, then report the progress.
OnReplayChunkCallback ==
    /\ currentReplayChunkReceive' = currentReplayChunkReceive + 1
    /\ onReplayChunk' = (currentReplayChunkReceive + 1 # expectedReplayChunks)
    /\ resolved' = IF currentReplayChunkReceive + 1 = expectedReplayChunks
                   THEN resolved + 1 ELSE resolved
    /\ progress' = <<currentReplayChunkReceive + 1, expectedReplayChunks>>
    /\ UNCHANGED expectedReplayChunks

\* What handleWSMessage did with a frame: its kind, whether it decoded, and
\* the number of calls of RPCController.handlePacket.
FrameOutcome(kind, decoded, handed) ==
    [kind |-> kind, decoded |-> decoded, handed |-> handed]

NoFrame == FrameOutcome("none", FALSE, 0)

\* Mutant of HandleReplayChunk: the callback runs before the first packet is
\* looked at, so an empty batch is counted.
HandleReplayChunkCounting(rpcs, now) ==
    /\ IF rpcs = <<>>
       THEN /\ UNCHANGED <<storeVars, received>>
            /\ IF onReplayChunk THEN OnReplayChunkCallback
               ELSE UNCHANGED <<chunkVars, progress, resolved>>
       ELSE LET batch == StoredBatch(rpcs, currentReplayChunkReceive, Len(replayPackets))
            IN /\ received' = received + 1
               /\ replayPackets' = replayPackets \o batch
               /\ groupedReplayPackets' = GroupAll(groupedReplayPackets, batch, now)
               /\ IF onReplayChunk THEN OnReplayChunkCallback
                  ELSE UNCHANGED <<chunkVars, progress, resolved>>
    /\ lastFrame' = FrameOutcome("replay", rpcs # <<>>, 0)
    /\ UNCHANGED <<clockVars, entities, sessionVars, lastTick, pass, spawnVars>>

\* handleReplayChunk(bytes), rpcs being the decoded batch and now the value
\* Date.now() returns while it runs.  An empty batch throws at
\* rpcs[0].timestamp after pushing nothing; a batch of at least one packet is
\* a received chunk.
HandleReplayChunk(rpcs, now) ==
    /\ IF rpcs = <<>>
       THEN UNCHANGED <<storeVars, chunkVars, progressVars>>
       ELSE LET batch == StoredBatch(rpcs, currentReplayChunkReceive, Len(replayPackets))
            IN /\ received' = received + 1
               /\ replayPackets' = replayPackets \o batch
               /\ groupedReplayPackets' = GroupAll(groupedReplayPackets, batch, now)
               /\ IF onReplayChunk THEN OnReplayChunkCallback
                  ELSE UNCHANGED <<chunkVars, progress, resolved>>
    /\ lastFrame' = FrameOutcome("replay", rpcs # <<>>, 0)
    /\ UNCHANGED <<clockVars, entities, sessionVars, lastTick, pass, spawnVars>>

\* handleWSMessage with a binary frame, first half: the frame is the next to
\* arrive and its body read, await data.arrayBuffer(), is started.
FrameArrive(rpcs) ==
    /\ arrivals' = arrivals + 1
    /\ pendingReads' = pendingReads \cup {[seq |-> arrivals + 1, rpcs |-> rpcs]}
    /\ UNCHANGED <<storeVars, chunkVars, clockVars, entities, sessionVars,
                   lastTick, pass, progressVars, consumed, spawnVars, lastFrame>>

\* handleWSMessage with a binary frame, second half: the body read of a
\* pending frame completes (the reads are independent promises, in no
\* particular order) and the "REPLAY" frame goes to handleReplayChunk.
ReadComplete(frame, now) ==
    /\ frame \in pendingReads
    /\ pendingReads' = pendingReads \ {frame}
    /\ consumed' = Append(consumed, frame.seq)
    /\ HandleReplayChunk(frame.rpcs, now)
    /\ UNCHANGED arrivals

\* handleWSMessage with a binary frame whose body read completes before any
\* other event.
HandleReplayFrame(rpcs, now) ==
    /\ HandleReplayChunk(rpcs, now)
    /\ UNCHANGED frameVars

(***************************************************************************)
(* Entity registry: MessageHandler.NetDestroy, Application.handleEntitySpawn*)
(***************************************************************************)
NoClass == "none"

\* AIAirVehicle.spawnFor, lower-cased as handleEntitySpawn compares it
AIAirVehicleSpawnFor ==
    {"units/allied/abomberai", "units/enemy/aiucav", "units/enemy/asf-30",
     "units/enemy/asf-33", "units/enemy/asf-58", "units/allied/av-42cai",
     "units/allied/e-4", "units/enemy/aew-50", "units/enemy/ebomberai",
     "units/allied/f-45a ai", "units/allied/fa-26a", "units/allied/fa-26b ai",
     "units/enemy/gav-25", "units/allied/kc-49", "units/allied/mq-31",
     "units/enemy/t-55 ai-e", "units/allied/t-55 ai"}

\* String.prototype.trim on the paths the model feeds in
TrimPath(path) ==
    CASE path = " units/allied/KC-49 " -> "units/allied/KC-49"
      [] OTHER -> path

\* String.prototype.toLowerCase on the trimmed paths
LowerCase(str) ==
    CASE str = "Units/Allied/FA-26A" -> "units/allied/fa-26a"
      [] str = "units/allied/KC-49" -> "units/allied/kc-49"
      [] str = "Vehicles/FA-26B" -> "vehicles/fa-26b"
      [] str = "Weapons/Missiles/AIM-120" -> "weapons/missiles/aim-120"
      [] str = "HPEquips/AFighter/fa26_gun" -> "hpequips/afighter/fa26_gun"
      [] str = "Units/Allied/RearmPoint" -> "units/allied/rearmpoint"
      [] str = "Units/Allied/Unknown" -> "units/allied/unknown"
      [] OTHER -> str

\* path.trim().toLowerCase()
NormalizePath(path) == LowerCase(TrimPath(path))

\* path.startsWith("HPEquips") and path.includes("Rearm"), on the raw path
StartsWithHPEquips(path) == path = "HPEquips/AFighter/fa26_gun"

IncludesRearm(path) == path = "Units/Allied/RearmPoint"

\* A spawn rule: the class and its static spawnFor, an array of strings
\* (held lower-cased) or a pattern (held as the lower-cased paths it accepts).
SpawnRule(cls, isArray, spawnFor) ==
    [cls |-> cls, isArray |-> isArray, spawnFor |-> spawnFor]

\* eClass.spawnFor.test(trimmed) for a pattern that ignores case
PatternTest(accepted, trimmed) == LowerCase(trimmed) \in accepted

\* The body of the loop for one class: the array branch or the pattern branch.
RuleMatches(rule, path) ==
    IF rule.isArray THEN NormalizePath(path) \in rule.spawnFor
    ELSE PatternTest(rule.spawnFor, TrimPath(path))

\* Mutant of ResolveSpawn: no break, the last matching class is kept.
ResolveSpawnLastMatch(path) ==
    LET F[i \in 0..Len(spawnables)] ==
            IF i = 0 THEN NoClass
            ELSE IF RuleMatches(spawnables[i], path) THEN spawnables[i].cls ELSE F[i - 1]
    IN F[Len(spawnables)]

\* for (let i = 0; i < this.spawnables.length; i++) with break at the first
\* class whose spawnFor accepts the path
RECURSIVE ResolveFrom(_, _)
ResolveFrom(i, path) ==
    IF i > Len(spawnables) THEN NoClass
    ELSE IF RuleMatches(spawnables[i], path) THEN spawnables[i].cls
         ELSE ResolveFrom(i + 1, path)

ResolveSpawn(path) == ResolveFrom(1, path)

\* [PlayerVehicle, AIAirVehicle, MissileEntity, GunEntity, AIGroundUnit],
\* the four classes other than AIAirVehicle accepting pv, me, ge and gu.
SpawnablesWith(pv, me, ge, gu) ==
    <<SpawnRule("PlayerVehicle", TRUE, pv),
      SpawnRule("AIAirVehicle", TRUE, AIAirVehicleSpawnFor),
      SpawnRule("MissileEntity", FALSE, me),
      SpawnRule("GunEntity", FALSE, ge),
      SpawnRule("AIGroundUnit", TRUE, gu)>>

\* The rules where no path fed in is one of another class than AIAirVehicle.
DefaultSpawnables == SpawnablesWith({}, {}, {}, {})

\* this.entities.push(entity)
AddEntity(ents, entity) == Append(ents, entity)

\* handleEntitySpawn: resolve the class; without one warn (unless the path is
\* a hardpoint or rearm point) and return, else construct, spawn and add the
\* entity.
HandleEntitySpawn(ents, id, path) ==
    IF ResolveSpawn(path) = NoClass THEN ents
    ELSE AddEntity(ents, [id |-> id, cls |-> ResolveSpawn(path), path |-> path])

\* Mutant of SpawnWarning: rearm points are not exempt.
SpawnWarningRearm(path) ==
    /\ ResolveSpawn(path) = NoClass
    /\ ~StartsWithHPEquips(path)

\* console.warn(`Unable to locate entity handler for ${path}`) is reached
SpawnWarning(path) ==
    /\ ResolveSpawn(path) = NoClass
    /\ ~StartsWithHPEquips(path)
    /\ ~IncludesRearm(path)

\* MessageHandler.NetDestroy: remove the first entity with this id.
NetDestroy(ents, id) ==
    IF \E i \in 1..Len(ents) : ents[i].id = id
    THEN LET i == CHOOSE j \in 1..Len(ents) :
                    /\ ents[j].id = id
                    /\ \A k \in 1..(j - 1) : ents[k].id # id
         IN SubSeq(ents, 1, i - 1) \o SubSeq(ents, i + 1, Len(ents))
    ELSE ents

\* MessageHandler.NetInstantiate
NetInstantiate(ents, id, path) == HandleEntitySpawn(ents, id, path)

LiveIds(ents) == {ents[i].id : i \in 1..Len(ents)}

(***************************************************************************)
(* Dispatcher: RPCController.handlePacket                                  *)
(***************************************************************************)
\* A MessageHandler packet reaches the registered per-instance handler it is
\* addressed to, which applies it to the entity list; a packet for an
\* unregistered handler is dropped.  Entity RPCs (UpdateData) change no list
\* membership.
HandlePacket(ents, packet, handlers) ==
    IF packet.className = "MessageHandler" /\ packet.handlerId \in handlers
    THEN IF packet.method = "NetInstantiate"
         THEN NetInstantiate(ents, packet.id, packet.path)
         ELSE IF packet.method = "NetDestroy"
              THEN NetDestroy(ents, packet.id)
              ELSE ents
    ELSE ents

\* packets.forEach(packet => RPCController.handlePacket(packet))
RECURSIVE HandleAll(_, _, _)
HandleAll(ents, packets, handlers) ==
    IF packets = <<>> THEN ents
    ELSE HandleAll(HandlePacket(ents, Head(packets), handlers), Tail(packets), handlers)

\* The paths handleEntitySpawn warns of while the packets are dispatched.
Warnings(packets, handlers) ==
    LET warned == SelectIdx(packets, LAMBDA i :
                      /\ packets[i].className = "MessageHandler"
                      /\ packets[i].handlerId \in handlers
                      /\ packets[i].method = "NetInstantiate"
                      /\ SpawnWarning(packets[i].path))
    IN [i \in 1..Len(warned) |-> warned[i].path]

(***************************************************************************)
(* Playback scheduler: packetIsInTimeframe, replaceRPCHandlers, runReplay  *)
(***************************************************************************)
\* get computedReplaySpeed(), doubled
ComputedReplaySpeed_x2(speedIdx) == REPLAY_SPEEDS_x2[speedIdx + 1]

\* Mutant of PacketIsInTimeframe: both ends of the interval inclusive.
PacketIsInTimeframeInclusive(packet, speed, start, cur, prev, now) ==
    LET fromRecordingStart ==
            Units(IF packet.timestamp = Undef THEN now ELSE packet.timestamp) - start
    IN IF speed > 0
       THEN fromRecordingStart <= cur /\ fromRecordingStart >= prev
       ELSE IF speed < 0
            THEN fromRecordingStart >= cur /\ fromRecordingStart <= prev
            ELSE FALSE

\* Mutant of PacketIsInTimeframe: at speed 0 every packet passes.
PacketIsInTimeframePaused(packet, speed, start, cur, prev, now) ==
    LET fromRecordingStart ==
            Units(IF packet.timestamp = Undef THEN now ELSE packet.timestamp) - start
    IN IF speed > 0
       THEN fromRecordingStart <= cur /\ fromRecordingStart > prev
       ELSE IF speed < 0
            THEN fromRecordingStart >= cur /\ fromRecordingStart < prev
            ELSE TRUE

\* packetIsInTimeframe(packet), cur and prev being replayCurrentTime (already
\* advanced) and prevReplayTime; at speed 0 it returns undefined (falsy).
PacketIsInTimeframe(packet, speed, start, cur, prev, now) ==
    LET fromRecordingStart ==
            Units(IF packet.timestamp = Undef THEN now ELSE packet.timestamp) - start
    IN IF speed > 0
       THEN fromRecordingStart <= cur /\ fromRecordingStart > prev
       ELSE IF speed < 0
            THEN fromRecordingStart >= cur /\ fromRecordingStart < prev
            ELSE FALSE

\* Mutant of FindSpawnPacket: the id is not compared.
FindSpawnPacketAnyId(store, id) ==
    LET IsSpawn(i) == /\ store[i].className = "MessageHandler"
                      /\ store[i].method = "NetInstantiate"
    IN IF \E i \in 1..Len(store) : IsSpawn(i)
       THEN CHOOSE i \in 1..Len(store) :
                    IsSpawn(i) /\ \A k \in 1..(i - 1) : ~IsSpawn(k)
       ELSE 0

\* app.replayPackets.find(p => p.className == "MessageHandler" &&
\*     p.method == "NetInstantiate" && p.args[0] == id): the position of the
\* first such packet of the flat list, 0 when find returns undefined.
FindSpawnPacket(store, id) ==
    LET IsSpawn(i) == /\ store[i].className = "MessageHandler"
                      /\ store[i].method = "NetInstantiate"
                      /\ store[i].id = id
    IN IF \E i \in 1..Len(store) : IsSpawn(i)
       THEN CHOOSE i \in 1..Len(store) :
                    IsSpawn(i) /\ \A k \in 1..(i - 1) : ~IsSpawn(k)
       ELSE 0

\* replaceRPCHandlers.find(h => h.className == packet.className &&
\*                              h.method == packet.method)
HasReplaceHandler(packet) ==
    /\ packet.className = "MessageHandler"
    /\ packet.method \in {"NetInstantiate", "NetDestroy"}

\* The state runReplay's forEach threads through the candidates.
TickAcc(ents) ==
    [ents |-> ents, packets |-> <<>>, selected |-> <<>>, effects |-> <<>>,
     thrown |-> FALSE]

Effect(src, kind, pkt) == [src |-> src, kind |-> kind, pkt |-> pkt]

\* The body of the forEach for one candidate.  In reverse the undo handler of
\* NetInstantiate calls app.messageHandler.NetDestroy(id) at once (a TypeError
\* when there is no message handler) and returns false; that of NetDestroy
\* returns the spawn packet it finds, or false.
ProcessCandidate(acc, packet, speed, start, cur, prev, now, store, handler) ==
    IF acc.thrown \/ ~PacketIsInTimeframe(packet, speed, start, cur, prev, now)
    THEN acc
    ELSE LET sel == [acc EXCEPT !.selected = Append(@, packet.n)]
         IN IF speed < 0 /\ HasReplaceHandler(packet)
            THEN IF packet.method = "NetInstantiate"
                 THEN IF handler = NoHandler
                      THEN [sel EXCEPT !.thrown = TRUE]
                      ELSE [sel EXCEPT
                              !.ents = NetDestroy(@, packet.id),
                              !.effects = Append(@, Effect(packet.n, "undo", packet.n))]
                 ELSE LET spawnPacket == FindSpawnPacket(store, packet.id)
                      IN IF spawnPacket = 0 THEN sel
                         ELSE [sel EXCEPT !.packets = Append(@, store[spawnPacket]),
                                 !.effects = Append(@, Effect(packet.n, "queue", spawnPacket))]
            ELSE [sel EXCEPT !.packets = Append(@, packet),
                    !.effects = Append(@, Effect(packet.n, "queue", packet.n))]

RECURSIVE ProcessAll(_, _, _, _, _, _, _, _, _)
ProcessAll(acc, cands, speed, start, cur, prev, now, store, handler) ==
    IF cands = <<>> THEN acc
    ELSE ProcessAll(
            ProcessCandidate(acc, Head(cands), speed, start, cur, prev, now, store, handler),
            Tail(cands), speed, start, cur, prev, now, store, handler)

\* if (expectedDt > 1000) expectedDt = 1000 / 60   (in units)
ExpectedDt(dt) ==
    IF dt > MaxExpectedDt THEN Units(MaxExpectedDt) \div 60 ELSE Units(dt)

\* expectedDt * this.computedReplaySpeed (in units; expectedDt is even)
Advance(dt, speedIdx) == (ExpectedDt(dt) * ComputedReplaySpeed_x2(speedIdx)) \div 2

\* Math.floor(t / 1000) of a clock value
ClockBucket(t) == t \div Units(BucketMs)

\* [...currentPacketGroup, ...prevPacketGroup]
Candidates(groups, cur, prev) ==
    Group(groups, ClockBucket(cur)) \o Group(groups, ClockBucket(prev))

\* What a tick leaves for the observers: the clock before and after, the
\* packets that passed the filter (store positions, in processing order), the
\* undo side effects and queue pushes in the order they happened, and the
\* packets handed to RPCController.handlePacket, in order.
TickRecord(start, before, prev, cur, speed, acc, done) ==
    [start |-> start, before |-> before, prev |-> prev, cur |-> cur, speed |-> speed, selected |-> acc.selected,
     effects |-> acc.effects,
     dispatched |-> IF done THEN [i \in 1..Len(acc.packets) |-> acc.packets[i].n]
                    ELSE <<>>]

NoTick == [start |-> 0, before |-> 0, prev |-> 0, cur |-> 0, speed |-> 0, selected |-> <<>>,
           effects |-> <<>>, dispatched |-> <<>>]

\* The order in which a tick's selected packets took effect: each undo side
\* effect when its handler ran, then each queued packet when it was
\* dispatched.  Every entry names the selected packet that caused it.
TookEffect(tick) ==
    SelectIdx(tick.effects, LAMBDA i : tick.effects[i].kind = "undo")
    \o SelectIdx(tick.effects, LAMBDA i : tick.effects[i].kind = "queue")

\* The pass observer: a run of forward ticks from pass.start, then a run of
\* reverse ticks; anything else voids it.  It keeps the store positions the
\* forward run has dispatched; a logging pass also keeps where the forward
\* run ended and what took effect in each run.
NewPass(t, ents, logging) ==
    [phase |-> "fwd", start |-> t, ids |-> LiveIds(ents), logging |-> logging,
     turn |-> t, fwd |-> <<>>, rev |-> <<>>, done |-> {}]

VoidPass == [phase |-> "void", start |-> 0, ids |-> {}, logging |-> FALSE,
             turn |-> 0, fwd |-> <<>>, rev |-> <<>>, done |-> {}]

PassAfterTick(p, tick) ==
    LET move == tick.cur - tick.before
        took == IF p.logging THEN TookEffect(tick) ELSE <<>>
    IN IF p.phase = "fwd" /\ move >= 0
       THEN [p EXCEPT !.turn = IF p.logging THEN tick.cur ELSE @,
                      !.fwd = @ \o took,
                      !.done = @ \cup Range(tick.dispatched)]
       ELSE IF p.phase \in {"fwd", "rev"} /\ move <= 0
            THEN [p EXCEPT !.phase = "rev", !.rev = @ \o took, !.done = {}]
            ELSE VoidPass

\* run() while isReplay: runReplay(dt), dt = Date.now() - prevFrameTime and
\* now the value of Date.now() during the call.  A TypeError thrown by an undo
\* handler leaves runReplay after the clock advanced and before anything was
\* dispatched or prevReplayTime recorded, and run() is not rescheduled.
RunReplay(dt, now) ==
    /\ frameLoop /\ isReplay
    /\ LET speed == ComputedReplaySpeed_x2(replaySpeed)
           cur == replayCurrentTime + Advance(dt, replaySpeed)
           acc == ProcessAll(TickAcc(entities),
                             Candidates(groupedReplayPackets, cur, prevReplayTime),
                             speed, replayStartTime, cur, prevReplayTime, now,
                             replayPackets, messageHandler)
           tick == TickRecord(replayStartTime, replayCurrentTime, prevReplayTime, cur, speed, acc, ~acc.thrown)
       IN /\ replayCurrentTime' = cur
          /\ IF acc.thrown
             THEN /\ entities' = acc.ents
                  /\ UNCHANGED prevReplayTime
                  /\ frameLoop' = FALSE
             ELSE /\ entities' = HandleAll(acc.ents, acc.packets, registered)
                  /\ prevReplayTime' = cur
                  /\ UNCHANGED frameLoop
          /\ lastWarned' = IF acc.thrown THEN <<>>
                           ELSE Warnings(acc.packets, registered)
          /\ lastTick' = tick
          /\ pass' = PassAfterTick(pass, tick)
    /\ UNCHANGED <<storeVars, chunkVars, isReplay, replayStartTime, replaySpeed,
                   appState, messageHandler, registered, game, progressVars, frameVars,
                   spawnables, lastFrame>>

(***************************************************************************)
(* Session operations and input events                                     *)
(***************************************************************************)
\* Mutant of HandleKeyDown: ArrowRight moves the index by two.
HandleKeyDownDoubleStep(key) ==
    /\ appState = "running"
    /\ replaySpeed' =
         IF key = "ArrowLeft" THEN (IF replaySpeed - 1 > 0 THEN replaySpeed - 1 ELSE 0)
         ELSE IF key = "ArrowRight"
              THEN (IF replaySpeed + 2 < Len(REPLAY_SPEEDS_x2) - 1
                    THEN replaySpeed + 2 ELSE Len(REPLAY_SPEEDS_x2) - 1)
              ELSE replaySpeed
    /\ UNCHANGED <<storeVars, chunkVars, isReplay, replayStartTime, replayCurrentTime,
                   prevReplayTime, entities, sessionVars, obsVars>>

\* handleKeyDown(e): ignored unless the application is running.
HandleKeyDown(key) ==
    /\ appState = "running"
    /\ replaySpeed' =
         IF key = "ArrowLeft" THEN (IF replaySpeed - 1 > 0 THEN replaySpeed - 1 ELSE 0)
         ELSE IF key = "ArrowRight"
              THEN (IF replaySpeed + 1 < Len(REPLAY_SPEEDS_x2) - 1
                    THEN replaySpeed + 1 ELSE Len(REPLAY_SPEEDS_x2) - 1)
              ELSE replaySpeed
    /\ UNCHANGED <<storeVars, chunkVars, isReplay, replayStartTime, replayCurrentTime,
                   prevReplayTime, entities, sessionVars, obsVars>>

\* requestReplay(replayId, onProgress): reset the counter and set the
\* callback; expected is what the client holds as expectedReplayChunks.
RequestReplay(expected) ==
    /\ currentReplayChunkReceive' = 0
    /\ onReplayChunk' = TRUE
    /\ expectedReplayChunks' = expected
    /\ received' = 0
    /\ progress' = NoProgress
    /\ resolved' = 0
    /\ UNCHANGED <<storeVars, clockVars, entities, sessionVars, lastTick, pass, frameVars,
                   spawnVars, lastFrame>>

\* beginReplay(id).  isReplay is set first; an empty store throws at
\* replayPackets[0].timestamp and a first packet without timestamp returns,
\* both before anything else is assigned.  prevReplayTime is not assigned.
BeginReplay(id) ==
    /\ isReplay' = TRUE
    /\ IF replayPackets = <<>> \/ replayPackets[1].timestamp = Undef
       THEN UNCHANGED <<replayStartTime, replayCurrentTime, sessionVars, pass>>
       ELSE /\ replayStartTime' = Units(replayPackets[1].timestamp)
            /\ replayCurrentTime' = Units(replayPackets[1].timestamp)
            /\ messageHandler' = id
            /\ registered' = registered \cup {id}
            /\ game' = id
            /\ appState' = "running"
            /\ frameLoop' = TRUE
            /\ pass' = NewPass(Units(replayPackets[1].timestamp), entities, FALSE)
    /\ UNCHANGED <<storeVars, chunkVars, prevReplayTime, replaySpeed, entities, lastTick,
                   progressVars, frameVars, spawnVars, lastFrame>>

\* Mutant of Subscribe: the old message handler stays registered.
SubscribeKeepHandler(gameRef, gameList) ==
    /\ appState' = "running"
    /\ frameLoop' = IF appState # "running" THEN TRUE ELSE frameLoop
    /\ IF gameRef \notin gameList
       THEN UNCHANGED <<entities, messageHandler, registered, game, pass>>
       ELSE /\ entities' = <<>>
            /\ registered' = registered \cup {gameRef}
            /\ game' = gameRef
            /\ messageHandler' = gameRef
            /\ pass' = VoidPass
    /\ UNCHANGED <<storeVars, chunkVars, clockVars, lastTick, progressVars, frameVars,
                   spawnVars, lastFrame>>

\* subscribe(gameRef): start() when not running, then look the game up (an
\* unknown id throws), tear every entity down, deregister the old message
\* handler and create the new one.
Subscribe(gameRef, gameList) ==
    /\ appState' = "running"
    /\ frameLoop' = IF appState # "running" THEN TRUE ELSE frameLoop
    /\ IF gameRef \notin gameList
       THEN UNCHANGED <<entities, messageHandler, registered, game, pass>>
       ELSE /\ entities' = <<>>
            /\ registered' = (registered \ {messageHandler}) \cup {gameRef}
            /\ game' = gameRef
            /\ messageHandler' = gameRef
            /\ pass' = VoidPass
    /\ UNCHANGED <<storeVars, chunkVars, clockVars, lastTick, progressVars, frameVars,
                   spawnVars, lastFrame>>

\* Mutant of HandleLiveRPC: the packet is handed to the dispatcher twice.
HandleLiveRPCTwice(packet) ==
    /\ entities' = HandlePacket(HandlePacket(entities, packet, registered),
                                packet, registered)
    /\ lastWarned' = Warnings(<<packet, packet>>, registered)
    /\ lastFrame' = FrameOutcome("text", TRUE, 2)
    /\ pass' = VoidPass
    /\ UNCHANGED <<storeVars, chunkVars, clockVars, sessionVars, lastTick,
                   progressVars, frameVars, spawnables>>

\* handleWSMessage with a text RPC frame: the packet goes straight to the
\* dispatcher.
HandleLiveRPC(packet) ==
    /\ entities' = HandlePacket(entities, packet, registered)
    /\ lastWarned' = Warnings(<<packet>>, registered)
    /\ lastFrame' = FrameOutcome("text", TRUE, 1)
    /\ pass' = VoidPass
    /\ UNCHANGED <<storeVars, chunkVars, clockVars, sessionVars, lastTick,
                   progressVars, frameVars, spawnables>>

\* handleWSMessage with a binary frame that does not start with "REPLAY":
\* the bytes go to the dispatcher, which decodes them to packets and
\* dispatches each.
HandleLiveBinary(packets) ==
    /\ entities' = HandleAll(entities, packets, registered)
    /\ lastWarned' = Warnings(packets, registered)
    /\ lastFrame' = FrameOutcome("binary", TRUE, 1)
    /\ pass' = VoidPass
    /\ UNCHANGED <<storeVars, chunkVars, clockVars, sessionVars, lastTick,
                   progressVars, frameVars, spawnables>>

\* handleWSMessage with a frame that does not decode: JSON.parse throws on a
\* malformed text frame, decompressRpcPackets on a truncated "REPLAY" frame,
\* before any field is assigned.
HandleUndecodable(kind) ==
    /\ lastFrame' = FrameOutcome(kind, FALSE, 0)
    /\ UNCHANGED <<storeVars, chunkVars, clockVars, entities, sessionVars, lastTick,
                   pass, progressVars, frameVars, spawnVars>>

(***************************************************************************)
(* Bounds and inputs                                                       *)
(***************************************************************************)
MaxPackets == 2          \* Spec: packets the store may hold
MaxEntities == 2         \* live entities
MaxTimeMs == 1000        \* Spec: the replay clock stays within [0, MaxTimeMs]
ReplayWindowMs == 3000   \* SpecReplay: the replay clock stays within
MaxRewindMs == 500       \*   [-MaxRewindMs, ReplayWindowMs]

\* Date.now(): the wall clock, far above the window of the replay clock.
NowValues == {7000}

SpawnPath == "Units/Allied/FA-26A"

INST(id, ts) == Packet("NetInstantiate", id, SpawnPath, ts)
DEST(id, ts) == Packet("NetDestroy", id, "", ts)
UPD(id, ts) == Packet("UpdateData", id, "", ts)

Keys == {"ArrowLeft", "ArrowRight", "f"}

GameIds == {"g1", "g2"}

\* The clock stays in the window and the entity list within its bound.
TickInBounds(dt, lo, hi) ==
    LET cur == replayCurrentTime + Advance(dt, replaySpeed)
    IN cur >= Units(lo) /\ cur <= Units(hi)

EntitiesInBounds == Len(entities') <= MaxEntities

\* The tick moves the clock by at most one bucket width.
TickWithinBucketWidth(dt) ==
    /\ Advance(dt, replaySpeed) <= Units(BucketMs)
    /\ Advance(dt, replaySpeed) >= -Units(BucketMs)

(***************************************************************************)
(* Spec: the application from construction                                 *)
(***************************************************************************)
\* The fields as the constructor leaves them, for the given spawn rules.
Constructed(rules) ==
    /\ replayPackets = <<>>
    /\ groupedReplayPackets = <<>>
    /\ onReplayChunk = FALSE
    /\ currentReplayChunkReceive = 0
    /\ expectedReplayChunks = 0
    /\ isReplay = FALSE
    /\ replayStartTime = 0
    /\ replayCurrentTime = 0
    /\ prevReplayTime = 0
    /\ replaySpeed = InitialReplaySpeed
    /\ entities = <<>>
    /\ appState = "welcome"
    /\ frameLoop = FALSE
    /\ messageHandler = NoHandler
    /\ registered = {}
    /\ game = NoGame
    /\ lastTick = NoTick
    /\ pass = VoidPass
    /\ received = 0
    /\ progress = NoProgress
    /\ resolved = 0
    /\ pendingReads = {}
    /\ arrivals = 0
    /\ consumed = <<>>
    /\ spawnables = rules
    /\ lastWarned = <<>>
    /\ lastFrame = NoFrame

Init == Constructed(DefaultSpawnables)

MainBatches ==
    {<<INST(1, 0), DEST(1, 1000)>>, <<INST(1, Undef)>>}

MainDts == {1000}

LivePackets == {INST(1, Undef), DEST(1, Undef)}

Chunk ==
    \E rpcs \in MainBatches, now \in NowValues :
        /\ Len(replayPackets) + Len(rpcs) <= MaxPackets
        /\ HandleReplayFrame(rpcs, now)

Tick ==
    \E dt \in MainDts, now \in NowValues :
        TickInBounds(dt, 0, MaxTimeMs) /\ RunReplay(dt, now) /\ EntitiesInBounds

Key == \E key \in Keys : HandleKeyDown(key)

Request == \E expected \in {1} : RequestReplay(expected)

Begin == \E id \in {"g1"} : BeginReplay(id)

Sub == \E gameRef \in GameIds : Subscribe(gameRef, {"g1"})

Live == \E packet \in LivePackets : HandleLiveRPC(packet) /\ EntitiesInBounds

Next == Chunk \/ Tick \/ Key \/ Request \/ Begin \/ Sub \/ Live

Spec == Init /\ [][Next]_vars

(***************************************************************************)
(* SpecReplay: playback of a received recording.  The initial states are   *)
(* those Spec reaches by handleReplayChunk for each chunk of a recording   *)
(* (no requestReplay callback set) followed by beginReplay("g1").          *)
(***************************************************************************)
RECURSIVE IngestAll(_, _, _)
IngestAll(st, chunks, now) ==
    IF chunks = <<>> THEN st
    ELSE LET batch == StoredBatch(Head(chunks), 0, Len(st.packets))
         IN IngestAll([packets |-> st.packets \o batch,
                       groups |-> GroupAll(st.groups, batch, now)],
                      Tail(chunks), now)

EmptyStore == [packets |-> <<>>, groups |-> <<>>]

Recordings ==
    { << <<UPD(1, 0), INST(1, 1000)>>, <<UPD(1, 1500), DEST(1, 2000)>> >>,
      << <<INST(1, 500), UPD(1, 1250), DEST(1, 1500)>> >>,
      << <<INST(1, 0), DEST(1, 1000), INST(1, 1750), DEST(1, 2250)>> >>,
      << <<DEST(2, 0), INST(1, 250), DEST(1, 750)>> >> }

ReplayDts == {250, 500, 1000}

\* The state after the recording st was received and replay begun at time
\* start0 (ms), the message handler "g1" registered.
Replaying(st, start0, logging) ==
    /\ replayPackets = st.packets
    /\ groupedReplayPackets = st.groups
    /\ onReplayChunk = FALSE
    /\ currentReplayChunkReceive = 0
    /\ expectedReplayChunks = 0
    /\ isReplay = TRUE
    /\ replayStartTime = Units(start0)
    /\ replayCurrentTime = Units(start0)
    /\ prevReplayTime = 0
    /\ replaySpeed = InitialReplaySpeed
    /\ entities = <<>>
    /\ appState = "running"
    /\ frameLoop = TRUE
    /\ messageHandler = "g1"
    /\ registered = {"g1"}
    /\ game = "g1"
    /\ lastTick = NoTick
    /\ pass = NewPass(Units(start0), <<>>, logging)
    /\ received = 0
    /\ progress = NoProgress
    /\ resolved = 0
    /\ pendingReads = {}
    /\ arrivals = 0
    /\ consumed = <<>>
    /\ spawnables = DefaultSpawnables
    /\ lastWarned = <<>>
    /\ lastFrame = NoFrame

InitReplay ==
    \E chunks \in Recordings :
        LET st == IngestAll(EmptyStore, chunks, 7000)
        IN Replaying(st, st.packets[1].timestamp, FALSE)

TickReplay ==
    \E dt \in ReplayDts, now \in NowValues :
        /\ TickInBounds(dt, -MaxRewindMs, ReplayWindowMs)
        /\ RunReplay(dt, now)
        /\ EntitiesInBounds

NextReplay == TickReplay \/ Key

SpecReplay == InitReplay /\ [][NextReplay]_vars

(***************************************************************************)
(* SpecPlayback: SpecReplay with every tick at most one bucket wide, so    *)
(* that a tick's interval never spans more than two adjacent buckets.      *)
(***************************************************************************)
TickPlayback ==
    \E dt \in ReplayDts, now \in NowValues :
        /\ TickWithinBucketWidth(dt)
        /\ TickInBounds(dt, -MaxRewindMs, ReplayWindowMs)
        /\ RunReplay(dt, now)
        /\ EntitiesInBounds

NextPlayback == TickPlayback \/ Key

SpecPlayback == InitReplay /\ [][NextPlayback]_vars

(***************************************************************************)
(* SpecScenario: the store holds instantiate(5, t=1000), update(5, t=1500),*)
(* destroy(5, t=2000) and virtual time starts at 0.  (Spec reaches this    *)
(* state by subscribe, beginReplay on the still empty store, which sets    *)
(* isReplay and throws, and the chunk's arrival.)  Every tick is at most   *)
(* one bucket wide.                                                        *)
(***************************************************************************)
ScenarioChunk == <<INST(5, 1000), UPD(5, 1500), DEST(5, 2000)>>

InitScenario == Replaying(IngestAll(EmptyStore, <<ScenarioChunk>>, 7000), 0, TRUE)

TickScenario ==
    \E dt \in ReplayDts, now \in NowValues :
        /\ TickWithinBucketWidth(dt)
        /\ TickInBounds(dt, 0, 2500)
        /\ RunReplay(dt, now)
        /\ EntitiesInBounds

NextScenario == TickScenario \/ Key

SpecScenario == InitScenario /\ [][NextScenario]_vars

(***************************************************************************)
(* SpecIngest: chunk receipt alone, over every batch of up to MaxBatch     *)
(* packets with and without timestamps.                                    *)
(***************************************************************************)
MaxBatch == 2            \* packets in a decoded batch
MaxStored == 3           \* SpecIngest: packets the store may hold
MaxChunks == 3           \* SpecIngest: chunks received since a requestReplay

IngestPool ==
    {Packet(m, 1, SpawnPath, ts) :
        m \in {"NetInstantiate", "NetDestroy"}, ts \in {Undef, 0, 999, 1000}}

IngestBatches ==
    UNION {[1..len -> IngestPool] : len \in 1..MaxBatch}

ChunkIngest ==
    \E rpcs \in IngestBatches \cup {<<>>}, now \in {7000, 8200} :
        /\ Len(replayPackets) + Len(rpcs) <= MaxStored
        /\ received < MaxChunks
        /\ HandleReplayFrame(rpcs, now)

RequestIngest == \E expected \in 1..2 : RequestReplay(expected)

NextIngest == ChunkIngest \/ RequestIngest

SpecIngest == Init /\ [][NextIngest]_vars

(***************************************************************************)
(* SpecFrames: binary "REPLAY" frames arrive on the socket in order; each  *)
(* body read completes at some later time, and only then does              *)
(* handleReplayChunk run for that frame.                                   *)
(***************************************************************************)
MaxFrames == 3           \* SpecFrames: binary frames that arrive

FrameBatches ==
    {<<>>,
     <<INST(1, Undef)>>,
     <<INST(1, 0), DEST(1, Undef)>>,
     <<INST(1, Undef), UPD(1, Undef), DEST(1, Undef)>>}

\* Every decoded batch the specifications feed in.
AllBatches == MainBatches \cup IngestBatches \cup FrameBatches

Arrive ==
    \E rpcs \in FrameBatches :
        /\ arrivals < MaxFrames
        /\ FrameArrive(rpcs)

Read == \E frame \in pendingReads, now \in NowValues : ReadComplete(frame, now)

RequestFrames == \E expected \in 1..MaxFrames : RequestReplay(expected)

NextFrames == Arrive \/ Read \/ RequestFrames

SpecFrames == Init /\ [][NextFrames]_vars

(***************************************************************************)
(* SpecSession: session operations.  The game list holds g1 and g2; the    *)
(* live entities of g1 carry id 1 and those of g2 id 2; the one recording  *)
(* is of g1.                                                               *)
(***************************************************************************)
SessionGames == {"g1", "g2"}

\* The entity id the packets of a game carry.
EntityIdOf(g) == IF g = "g1" THEN 1 ELSE 2

SessionLivePackets ==
    {PacketFor(g, m, EntityIdOf(g), SpawnPath, Undef) :
        g \in SessionGames, m \in {"NetInstantiate", "NetDestroy"}}

SessionBatch == <<UPD(1, 0), INST(1, 1000)>>

ChunkSession ==
    \E now \in NowValues :
        /\ replayPackets = <<>>
        /\ HandleReplayFrame(SessionBatch, now)

TickSession ==
    \E dt \in MainDts, now \in NowValues :
        TickInBounds(dt, 0, MaxTimeMs) /\ RunReplay(dt, now) /\ EntitiesInBounds

BeginSession == BeginReplay("g1")

SubSession == \E gameRef \in SessionGames \cup {"g3"} : Subscribe(gameRef, SessionGames)

LiveSession ==
    \E packet \in SessionLivePackets : HandleLiveRPC(packet) /\ EntitiesInBounds

NextSession ==
    ChunkSession \/ TickSession \/ BeginSession \/ SubSession \/ LiveSession \/ Key

SpecSession == Init /\ [][NextSession]_vars

(***************************************************************************)
(* SpecLive: a live session of g1 under each choice of the spawn rules of  *)
(* PlayerVehicle, MissileEntity, GunEntity and AIGroundUnit, fed spawn and *)
(* destroy packets over paths that differ in case and padding.             *)
(***************************************************************************)
LivePaths ==
    {"Units/Allied/FA-26A", " units/allied/KC-49 ", "Vehicles/FA-26B",
     "Weapons/Missiles/AIM-120", "HPEquips/AFighter/fa26_gun",
     "Units/Allied/RearmPoint", "Units/Allied/Unknown"}

SpawnIds == {1, 2}

SpawnableChoices ==
    {SpawnablesWith(pv, me, ge, gu) :
        pv \in SUBSET {"vehicles/fa-26b", "units/allied/fa-26a"},
        me \in {{}, {"weapons/missiles/aim-120", "vehicles/fa-26b"}},
        ge \in {{}, {"weapons/missiles/aim-120"}},
        gu \in {{}, {"units/allied/kc-49"}}}

InitLive == \E rules \in SpawnableChoices : Constructed(rules)

SpawnFrames ==
    {PacketFor("g1", "NetInstantiate", id, path, Undef) :
        id \in SpawnIds, path \in LivePaths}

DestroyFrames ==
    {PacketFor("g1", "NetDestroy", id, "", Undef) : id \in SpawnIds}

SubLive == Subscribe("g1", {"g1"})

SpawnLive == \E packet \in SpawnFrames : HandleLiveRPC(packet) /\ EntitiesInBounds

DestroyLive == \E packet \in DestroyFrames : HandleLiveRPC(packet)

NextLive == SubLive \/ SpawnLive \/ DestroyLive

SpecLive == InitLive /\ [][NextLive]_vars

(***************************************************************************)
(* SpecDecode: Spec at the initial speed with, in addition, frames that do *)
(* not decode (a malformed text frame, a truncated or empty "REPLAY"       *)
(* frame) and binary frames without the "REPLAY" marker.                   *)
(***************************************************************************)
LiveBinaryBatches ==
    {<<INST(1, Undef)>>, <<INST(1, Undef), DEST(1, Undef)>>, <<DEST(1, Undef)>>}

Undecodable == \E kind \in {"text", "replay"} : HandleUndecodable(kind)

EmptyChunk == \E now \in NowValues : HandleReplayFrame(<<>>, now)

LiveBinary ==
    \E packets \in LiveBinaryBatches : HandleLiveBinary(packets) /\ EntitiesInBounds

NextDecode ==
    Chunk \/ Tick \/ Request \/ Begin \/ Sub \/ Live \/ Undecodable \/ EmptyChunk \/ LiveBinary

SpecDecode == Init /\ [][NextDecode]_vars

(***************************************************************************)
(* Properties                                                              *)
(***************************************************************************)
\* The timestamp of stored packet n in ms since recording start, as the
\* tick that left `tick` saw it (in units).
FromRecordingStart(n, tick) == Units(replayPackets[n].timestamp) - tick.start

\* Stored packet n lies in the interval the tick traversed: (prev, cur]
\* forward, [cur, prev) in reverse.
InTraversedInterval(n, tick) ==
    \/ /\ tick.speed > 0
       /\ tick.prev < FromRecordingStart(n, tick)
       /\ FromRecordingStart(n, tick) <= tick.cur
    \/ /\ tick.speed < 0
       /\ tick.cur <= FromRecordingStart(n, tick)
       /\ FromRecordingStart(n, tick) < tick.prev

NonDecreasing(s) == \A i, j \in 1..Len(s) : i < j => s[i] <= s[j]

NonIncreasing(s) == \A i, j \in 1..Len(s) : i < j => s[i] >= s[j]

\* C1: after forward ticks from virtual time a and reverse ticks back to a,
\* the set of live entity ids is the one before the forward ticks.
C1_ForwardReverseSymmetry ==
    (pass.phase = "rev" /\ replayCurrentTime = pass.start)
        => LiveIds(entities) = pass.ids

\* C2: in the scenario, the forward run to 2500 dispatches packets 1, 2, 3
\* (instantiate, update, destroy) exactly once each in that order and leaves
\* no entity 5; the reverse run back to 500 processes destroy, update,
\* instantiate in that order (the destroy re-dispatching the spawn packet, the
\* instantiate undone directly) and leaves no entity 5.
C2_Scenario ==
    /\ (pass.phase = "fwd" /\ replayCurrentTime = Units(2500))
         => /\ [i \in 1..Len(pass.fwd) |-> pass.fwd[i].pkt] = <<1, 2, 3>>
            /\ 5 \notin LiveIds(entities)
    /\ (pass.phase = "rev" /\ pass.turn = Units(2500) /\ replayCurrentTime = Units(500))
         => /\ [i \in 1..Len(pass.fwd) |-> pass.fwd[i].pkt] = <<1, 2, 3>>
            /\ pass.rev = <<Effect(3, "queue", 1), Effect(2, "queue", 2),
                            Effect(1, "undo", 1)>>
            /\ 5 \notin LiveIds(entities)

C4_DualBucketComplete ==
    (/\ lastTick # NoTick
     /\ ClockBucket(lastTick.cur) - ClockBucket(lastTick.prev) \in {-1, 0, 1})
        => \A n \in 1..Len(replayPackets) :
              (replayPackets[n].timestamp # Undef /\ InTraversedInterval(n, lastTick))
                 => n \in Range(lastTick.selected)

\* C5: a forward tick dispatches its packets in store order.
C5_ForwardOrder ==
    lastTick.speed > 0 => NonDecreasing(lastTick.dispatched)

\* C6: in a reverse tick the selected packets take effect in reverse store
\* order, undo side effects and dispatches taken together.
C6_ReverseOrder ==
    lastTick.speed < 0 =>
        NonIncreasing([i \in 1..Len(TookEffect(lastTick)) |-> TookEffect(lastTick)[i].src])

\* C7: no two live entities have the same id.
C7_UniqueIds ==
    \A i, j \in 1..Len(entities) : i # j => entities[i].id # entities[j].id

\* C8: every stored packet with timestamp t is in bucket floor(t / 1000) and
\* in no other bucket, and every bucket lists its packets in ingestion order.
C8_BucketPlacement ==
    /\ \A n \in 1..Len(replayPackets) :
          LET p == replayPackets[n]
              b == p.timestamp \div BucketMs
          IN p.timestamp # Undef =>
                /\ b \in DOMAIN groupedReplayPackets
                /\ p \in Range(groupedReplayPackets[b])
                /\ \A sec \in DOMAIN groupedReplayPackets \ {b} :
                      p \notin Range(groupedReplayPackets[sec])
    /\ \A sec \in DOMAIN groupedReplayPackets :
          \A i, j \in 1..Len(groupedReplayPackets[sec]) :
              i < j => groupedReplayPackets[sec][i].n < groupedReplayPackets[sec][j].n

\* C8 witness: packets with timestamps 999 and 1000 were ingested, and some
\* bucket holds more than one packet.
C8_Witness ==
    /\ \E p \in Range(replayPackets) : p.timestamp = 999
    /\ \E p \in Range(replayPackets) : p.timestamp = 1000
    /\ \E sec \in DOMAIN groupedReplayPackets : Len(groupedReplayPackets[sec]) > 1

\* C9: no step removes a packet from the flat list or from a bucket, or
\* changes the order of the packets already there.
C9_AppendOnly ==
    [][/\ IsPrefix(replayPackets, replayPackets')
       /\ \A sec \in DOMAIN groupedReplayPackets :
             /\ sec \in DOMAIN groupedReplayPackets'
             /\ IsPrefix(groupedReplayPackets[sec], groupedReplayPackets'[sec])]_vars

\* C9 witness: with a recording stored and a requestReplay callback set, a
\* reverse tick has processed a packet of the store.
C9_Witness ==
    /\ Len(replayPackets) > 1
    /\ onReplayChunk
    /\ isReplay
    /\ lastTick.speed < 0
    /\ lastTick.selected # <<>>

\* C10: every packet in the store has a defined timestamp.
C10_ResolvedTimestamps ==
    /\ \A n \in 1..Len(replayPackets) : replayPackets[n].timestamp # Undef
    /\ \A sec \in DOMAIN groupedReplayPackets :
          \A i \in 1..Len(groupedReplayPackets[sec]) :
              groupedReplayPackets[sec][i].timestamp # Undef

\* C11: a batch of n packets whose first packet has no timestamp, handled as
\* the chunk with 0-based index c among the chunks received so far, is stored
\* with timestamp c*30000 + i*(30000/n) on its packet i (0-based).
C11_SyntheticTimestamps ==
    [][\A rpcs \in AllBatches, now \in NowValues :
          (/\ rpcs # <<>>
           /\ rpcs[1].timestamp = Undef
           /\ HandleReplayChunk(rpcs, now))
          => \A i \in 1..Len(rpcs) :
                replayPackets'[Len(replayPackets) + i].timestamp * Len(rpcs)
                    = received * MsPerChunk * Len(rpcs) + (i - 1) * MsPerChunk]_vars

\* C12: every step that receives a replay chunk increments the chunk counter
\* by exactly one.
C12_ChunkCounter ==
    [][received' = received + 1
          => currentReplayChunkReceive' = currentReplayChunkReceive + 1]_vars

\* C13: after requestReplay with n chunks expected, once k chunks (k <= n)
\* have been received the last progress value is k/n, and the promise has
\* resolved once if k = n and not at all if k < n; it never resolves again.
C13_ChunkProgress ==
    expectedReplayChunks >= 1 =>
        /\ (received >= 1 /\ received <= expectedReplayChunks)
              => progress = <<received, expectedReplayChunks>>
        /\ resolved = IF received >= expectedReplayChunks THEN 1 ELSE 0

\* C13 witness: two chunks were expected, both have been received, the last
\* progress value is 2/2 and the promise has resolved once.
C13_Witness ==
    /\ expectedReplayChunks = 2
    /\ received = 2
    /\ progress = <<2, 2>>
    /\ resolved = 1

\* C14: handleReplayChunk runs for the binary frames in the order in which
\* they arrived.
C14_ArrivalOrder ==
    \A i, j \in 1..Len(consumed) : i < j => consumed[i] < consumed[j]

\* C15: in a reverse tick, every selected NetInstantiate packet had the
\* destroy effect of its id applied directly by its undo handler and was not
\* dispatched in that tick.
C15_UndoInstantiate ==
    lastTick.speed < 0 =>
        \A n \in Range(lastTick.selected) :
            replayPackets[n].method = "NetInstantiate" =>
                /\ Effect(n, "undo", n) \in Range(lastTick.effects)
                /\ n \notin Range(lastTick.dispatched)

\* The latest NetInstantiate of the id of stored packet d that precedes d in
\* the store, 0 if there is none.
LatestSpawnBefore(d) ==
    LET IsSpawn(i) == /\ replayPackets[i].method = "NetInstantiate"
                      /\ replayPackets[i].id = replayPackets[d].id
    IN IF \E i \in 1..(d - 1) : IsSpawn(i)
       THEN CHOOSE i \in 1..(d - 1) :
                IsSpawn(i) /\ \A k \in (i + 1)..(d - 1) : ~IsSpawn(k)
       ELSE 0

\* C16: in a reverse tick, the packet queued in place of a selected
\* NetDestroy is the latest NetInstantiate of the same id that precedes the
\* destroy.
C16_UndoDestroyLatest ==
    lastTick.speed < 0 =>
        \A i \in 1..Len(lastTick.effects) :
            LET e == lastTick.effects[i]
            IN (replayPackets[e.src].method = "NetDestroy" /\ e.kind = "queue")
                  => e.pkt = LatestSpawnBefore(e.src)

\* Stored packet d is a NetDestroy whose id no NetInstantiate of the store
\* carries.
DestroyWithoutSpawn(d) ==
    /\ replayPackets[d].method = "NetDestroy"
    /\ \A i \in 1..Len(replayPackets) :
          ~(replayPackets[i].method = "NetInstantiate"
              /\ replayPackets[i].id = replayPackets[d].id)

\* The candidates of a tick that lie in its interval, in candidate order.
CandidatesInInterval(tick) ==
    LET cands == Candidates(groupedReplayPackets, tick.cur, tick.prev)
        kept == SelectIdx(cands, LAMBDA i : InTraversedInterval(cands[i].n, tick))
    IN [i \in 1..Len(kept) |-> kept[i].n]

\* C17: in a reverse tick that selected a NetDestroy whose id has no
\* NetInstantiate in the store, nothing was queued, dispatched or applied to
\* the entity list on behalf of that packet, every candidate in the interval
\* was still processed, and the frame loop goes on.
C17_UndoDestroyNoSpawn ==
    lastTick.speed < 0 =>
        \A d \in Range(lastTick.selected) :
            DestroyWithoutSpawn(d) =>
                /\ \A i \in 1..Len(lastTick.effects) : lastTick.effects[i].src # d
                /\ lastTick.selected = CandidatesInInterval(lastTick)
                /\ Len(lastTick.dispatched)
                      = Cardinality({i \in 1..Len(lastTick.effects) :
                                        lastTick.effects[i].kind = "queue"})
                /\ frameLoop

\* C17 witness: a reverse tick selected such a NetDestroy and then undid a
\* NetInstantiate and re-dispatched a spawn packet for another id.
C17_Witness ==
    /\ lastTick.speed < 0
    /\ \E d \in Range(lastTick.selected) : DestroyWithoutSpawn(d)
    /\ \E i \in 1..Len(lastTick.effects) : lastTick.effects[i].kind = "undo"
    /\ lastTick.dispatched # <<>>
    /\ frameLoop

\* C18: every replay tick started with prevReplayTime equal to the virtual
\* time left by the tick before it or, for the first tick after beginReplay,
\* set by beginReplay: that is, equal to replayCurrentTime as the tick found it.
C18_ClockHistory ==
    lastTick.prev = lastTick.before

\* C19: a replay tick at speed 0 leaves virtual time and the entity list as
\* they were, selects no packet, runs no undo handler and dispatches nothing.
C19_Pause ==
    [][(/\ ComputedReplaySpeed_x2(replaySpeed) = 0
        /\ \E dt \in ReplayDts \cup MainDts, now \in NowValues : RunReplay(dt, now))
          => /\ replayCurrentTime' = replayCurrentTime
             /\ entities' = entities
             /\ lastTick'.selected = <<>>
             /\ lastTick'.effects = <<>>
             /\ lastTick'.dispatched = <<>>]_vars

\* C19 witness: a tick has run at speed 0 with an entity live, away from the
\* start of the recording, in a bucket that holds packets.
C19_Witness ==
    /\ lastTick.speed = 0
    /\ lastTick.cur # lastTick.start
    /\ lastTick.cur = lastTick.before
    /\ replayCurrentTime = lastTick.cur
    /\ Group(groupedReplayPackets, ClockBucket(lastTick.cur)) # <<>>
    /\ entities # <<>>

\* C20: the speed index is always within [0, REPLAY_SPEEDS.length - 1], so
\* that the computed speed is an entry of the table, and no step moves it by
\* more than one.
C20_SpeedIndexClamped ==
    /\ [](/\ replaySpeed \in 0..(Len(REPLAY_SPEEDS_x2) - 1)
          /\ replaySpeed + 1 \in DOMAIN REPLAY_SPEEDS_x2)
    /\ [][replaySpeed' - replaySpeed \in {-1, 0, 1}]_vars

\* C20 witness: the index stands at the top of the table after a tick was
\* run at a negative speed, so both decrements and increments have happened.
C20_Witness ==
    /\ replaySpeed = Len(REPLAY_SPEEDS_x2) - 1
    /\ lastTick.speed < 0

\* C21: a subscribe that switches to a game of the list leaves the entity
\* list empty, the previous MessageHandler deregistered and the new one
\* registered; and while no replay was begun every live entity belongs to the
\* current game.
C21_SessionSwitch ==
    /\ [][\A gameRef \in SessionGames :
            Subscribe(gameRef, SessionGames)
              => /\ entities' = <<>>
                 /\ messageHandler \in registered' => messageHandler = gameRef
                 /\ gameRef \in registered'
                 /\ messageHandler' = gameRef
                 /\ game' = gameRef]_vars
    /\ [](~isReplay =>
            /\ registered \subseteq {game}
            /\ \A i \in 1..Len(entities) : entities[i].id = EntityIdOf(game))

\* C21 witness: a replay session of g1 was begun and a tick dispatched its
\* spawn packet; subscribe has switched to g2, whose handler alone is
\* registered, and the list holds entities of g2 only.
C21_Witness ==
    /\ isReplay
    /\ lastTick.dispatched # <<>>
    /\ game = "g2"
    /\ registered = {"g2"}
    /\ entities # <<>>
    /\ \A i \in 1..Len(entities) : entities[i].id = EntityIdOf("g2")

\* C22: a successful subscribe leaves replay mode off and virtual time,
\* previous virtual time and the speed index at their initial values; a
\* successful beginReplay leaves previous virtual time at the virtual time it
\* sets and the speed index at its initial value.
C22_ClockReset ==
    [][/\ \A gameRef \in SessionGames :
             Subscribe(gameRef, SessionGames)
               => /\ ~isReplay'
                  /\ replayCurrentTime' = 0
                  /\ prevReplayTime' = 0
                  /\ replaySpeed' = InitialReplaySpeed
       /\ (BeginReplay("g1") /\ replayPackets # <<>>)
               => /\ prevReplayTime' = replayCurrentTime'
                  /\ replaySpeed' = InitialReplaySpeed]_vars

\* The class's matcher accepts the trimmed path, compared without case.
MatcherAccepts(rule, path) == NormalizePath(path) \in rule.spawnFor

\* The position in spawnables of the first class accepting the path, or 0.
FirstAccepting(path) ==
    IF \E i \in 1..Len(spawnables) : MatcherAccepts(spawnables[i], path)
    THEN CHOOSE i \in 1..Len(spawnables) :
             /\ MatcherAccepts(spawnables[i], path)
             /\ \A j \in 1..(i - 1) : ~MatcherAccepts(spawnables[j], path)
    ELSE 0

\* C23: a spawn packet for a path some class accepts adds exactly one entity,
\* of the first class in spawnables order whose matcher accepts the trimmed,
\* case-insensitive path; every live entity is of the first class accepting
\* its path.
C23_SpawnPriority ==
    /\ [][\A packet \in SpawnFrames :
             (/\ HandleLiveRPC(packet)
              /\ packet.handlerId \in registered
              /\ FirstAccepting(packet.path) # 0)
               => entities' = Append(entities,
                                     [id |-> packet.id,
                                      cls |-> spawnables[FirstAccepting(packet.path)].cls,
                                      path |-> packet.path])]_vars
    /\ [](\A i \in 1..Len(entities) :
             /\ FirstAccepting(entities[i].path) # 0
             /\ entities[i].cls = spawnables[FirstAccepting(entities[i].path)].cls)

\* C23 witness: PlayerVehicle and AIAirVehicle both accept fa-26a and the
\* entity is a PlayerVehicle; AIAirVehicle and AIGroundUnit both accept the
\* padded, mixed-case kc-49 path and the entity is an AIAirVehicle.
C23_Witness ==
    /\ Len(entities) = 2
    /\ entities[1].path = "Units/Allied/FA-26A"
    /\ entities[1].cls = "PlayerVehicle"
    /\ MatcherAccepts(spawnables[2], entities[1].path)
    /\ entities[2].path = " units/allied/KC-49 "
    /\ entities[2].cls = "AIAirVehicle"
    /\ MatcherAccepts(spawnables[5], entities[2].path)

\* The path is of an ignored category: an equipment hardpoint ("HPEquips"
\* leads it) or a rearm point ("Rearm" is in it).
IgnoredCategory(path) == StartsWithHPEquips(path) \/ IncludesRearm(path)

\* C24: a spawn packet whose path no class accepts leaves the live entity
\* list unchanged; it is reported as a warning unless the path is an
\* equipment hardpoint or a rearm point, and then nothing is reported.
C24_UnmatchedSpawn ==
    [][\A packet \in SpawnFrames :
          (/\ HandleLiveRPC(packet)
           /\ packet.handlerId \in registered
           /\ FirstAccepting(packet.path) = 0)
            => /\ entities' = entities
               /\ lastWarned' = IF IgnoredCategory(packet.path) THEN <<>>
                                 ELSE <<packet.path>>]_vars

\* C24 witness: the unknown path was reported and the entity spawned before
\* it is still the whole list.
C24_Witness ==
    /\ lastWarned = <<"Units/Allied/Unknown">>
    /\ Len(entities) = 1

\* The entities of the list, in order, whose id is not the given one.
WithoutId(ents, id) == SelectSeq(ents, LAMBDA e : e.id # id)

\* C25: after NetDestroy(id) no entity with that id is in the live entity
\* list and every other entity is in it in its previous order; when no live
\* entity has that id the list is unchanged.
C25_Despawn ==
    [][\A packet \in DestroyFrames :
          (HandleLiveRPC(packet) /\ packet.handlerId \in registered)
            => entities' = WithoutId(entities, packet.id)]_vars

\* The fields of the application: everything but the observations.
programVars ==
    <<storeVars, chunkVars, clockVars, entities, sessionVars, spawnables, pendingReads>>

\* C26: a step in which a frame fails to decode leaves the packet store, the
\* chunk counter, the live entity list and the clock unchanged, and with them
\* every other field, so that what follows is processed as from the state
\* before the frame.
C26_DecodeIsolation ==
    [][(~lastFrame'.decoded /\ lastFrame' # lastFrame)
         => /\ UNCHANGED <<storeVars, currentReplayChunkReceive, entities, clockVars>>
            /\ UNCHANGED programVars]_vars

\* C26 witness: packets are stored, the replay is running with an entity
\* live, a requested transfer waits for its one chunk, and the last frame was
\* a "REPLAY" frame that did not decode: no chunk is counted.
C26_Witness ==
    /\ lastFrame = FrameOutcome("replay", FALSE, 0)
    /\ onReplayChunk
    /\ expectedReplayChunks = 1
    /\ currentReplayChunkReceive = 0
    /\ replayPackets # <<>>
    /\ isReplay
    /\ entities # <<>>

\* C27: a text RPC frame and a binary frame without the REPLAY marker are
\* handed to the dispatcher exactly once and leave the packet store and the
\* clock unchanged; a binary frame with the REPLAY marker is stored, is not
\* handed to the dispatcher and leaves the live entity list unchanged.
C27_LiveBypass ==
    [][/\ \A packet \in LivePackets :
             HandleLiveRPC(packet)
               => /\ lastFrame'.handed = 1
                  /\ entities' = HandlePacket(entities, packet, registered)
                  /\ UNCHANGED <<storeVars, clockVars>>
       /\ \A packets \in LiveBinaryBatches :
             HandleLiveBinary(packets)
               => /\ lastFrame'.handed = 1
                  /\ entities' = HandleAll(entities, packets, registered)
                  /\ UNCHANGED <<storeVars, clockVars>>
       /\ \A rpcs \in MainBatches, now \in NowValues :
             HandleReplayFrame(rpcs, now)
               => /\ lastFrame'.handed = 0
                  /\ Len(replayPackets') = Len(replayPackets) + Len(rpcs)
                  /\ entities' = entities]_vars

\* C27 witness: with a chunk in the store and the replay begun, the last
\* frame was a text RPC frame, handed over once, and its entity is live.
C27_Witness ==
    /\ lastFrame = FrameOutcome("text", TRUE, 1)
    /\ replayPackets # <<>>
    /\ isReplay
    /\ entities # <<>>

\* C28: in a replay tick each stored packet is selected at most once, also
\* when the tick's current and previous virtual time lie in one bucket.
C28_SelectedOnce ==
    \A i, j \in 1..Len(lastTick.selected) :
        lastTick.selected[i] = lastTick.selected[j] => i = j

\* The forward run since beginReplay has taken virtual time past the
\* timestamp of the last stored packet.
ForwardPastLast ==
    /\ pass.phase = "fwd"
    /\ pass.start = replayStartTime
    /\ replayPackets # <<>>
    /\ replayCurrentTime > Units(replayPackets[Len(replayPackets)].timestamp)

\* C29: once forward ticks of at most one bucket width have taken virtual
\* time from beginReplay past the last packet's timestamp, every stored
\* packet with a timestamp greater than the first packet's has been
\* dispatched.
C29_FullForward ==
    ForwardPastLast =>
        \A n \in 1..Len(replayPackets) :
            replayPackets[n].timestamp > replayPackets[1].timestamp
                => n \in pass.done

\* What a failed session operation is to leave alone: the live entity list,
\* the registered message handler, the current game and the replay-mode flag.
sessionState == <<entities, messageHandler, registered, game, isReplay>>

\* beginReplay fails: the store has no first packet with a timestamp.
BeginReplayFails ==
    replayPackets = <<>> \/ replayPackets[1].timestamp = Undef

\* C30: subscribe with an id that is not in the game list, and beginReplay on
\* a store whose first packet has no timestamp, leave the live entity list,
\* the registered message handler, the current game and the replay-mode flag
\* unchanged.
C30_FailedOperations ==
    [][/\ Subscribe("g3", SessionGames) => UNCHANGED sessionState
       /\ (BeginReplayFails /\ BeginReplay("g1")) => UNCHANGED sessionState]_vars

====
